---- MODULE Spec2Model ----
(***************************************************************************)
(* A model of the tek editor core: the piece table of src/src/text.rs,     *)
(* the window / tab model of src/src/editor.rs and the event loop of       *)
(* src/src/ui.rs.                                                          *)
(*                                                                         *)
(* Text is modelled at the level the code works on: a Rust String is a     *)
(* sequence of UTF-8 bytes, String::len() counts bytes, and slicing a      *)
(* String panics unless both ends are character boundaries.  The byte      *)
(* alphabet holds one-byte characters and one two-byte character (the      *)
(* lead byte "c3" followed by the continuation byte "a9").                 *)
(* Handles and indices are 0-based as in the source; TLA+ sequences are    *)
(* 1-based, hence the +1 at every subscript.                               *)
(***************************************************************************)
EXTENDS Integers, Sequences, FiniteSets, TLC

VARIABLES
    \* PieceTable (text.rs:27-32)
    original, append, pieces,
    \* the string the table was constructed from, and the last call made on it
    tsource, tcall,
    \* Editor (editor.rs:59-68)
    windows, tabs, status, mode, size, current_tab,
    \* whether the process has panicked
    panicked,
    \* the last two Editor calls: the state before the last one, and the
    \* tab count and current tab before the one preceding it
    ecall, eprev,
    \* the direction given to the last Editor call ("None" if it takes none), and
    \* the focused handles seen through the current run of equal rotate_focus calls
    edirection, streak,
    \* Editor::buffers (editor.rs:60) and the UI (ui.rs:8-12)
    buffers, command_line, quit,
    \* whether UI::run has returned an error, the last event handled, and
    \* where UI::run stands: before draw, before event::read, or returned
    failed, uevent, pc

tvars == <<original, append, pieces, tsource, tcall>>
evars == <<windows, tabs, status, mode, size, current_tab, panicked, ecall, eprev,
           edirection, streak>>
uvars == <<buffers, command_line, quit, failed, uevent, pc>>
vars == <<original, append, pieces, tsource, tcall,
          windows, tabs, status, mode, size, current_tab, panicked, ecall, eprev,
          edirection, streak, buffers, command_line, quit, failed, uevent, pc>>

\* ------------------------------------------------------------------ bounds
\* characters in the string a table is constructed from
MaxInitChars == 1
\* insert / remove calls made on one table
MaxTextOps == 3
\* Editor calls made on one editor
MaxEditorOps == 5
\* events UI::run reads, and characters typed into one command line
MaxEvents == 5
MaxLine == 3

\* ------------------------------------------------------------------ strings
Lead == "c3"
Continuation == "a9"

\* the characters (as byte sequences) texts are drawn from
InitChars == {<<"a">>, <<Lead, Continuation>>}
\* the texts an insert call is given: empty, one byte, one two-byte character
InsertTexts == {<<>>, <<"x">>, <<Lead, Continuation>>}

RECURSIVE Utf8Strings(_, _)
Utf8Strings(chars, n) ==
    IF n = 0 THEN {<<>>}
    ELSE LET shorter == Utf8Strings(chars, n - 1)
         IN  shorter \cup {s \o c : s \in shorter, c \in chars}

\* str::is_char_boundary: 0 and len are boundaries, an index beyond len is
\* not, any other index is one unless its byte is a continuation byte
is_char_boundary(buffer, index) ==
    \/ index = 0
    \/ index = Len(buffer)
    \/ index < Len(buffer) /\ buffer[index + 1] # Continuation

\* a value or a panic
Ok(v) == [panic |-> FALSE, value |-> v]
Panic == [panic |-> TRUE, value |-> <<>>]

\* ------------------------------------------------------------------ text.rs
\* enum PieceKind
PieceKindOriginal == "Original"
PieceKindAppend == "Append"

Piece(offset, width, kind) == [offset |-> offset, width |-> width, kind |-> kind]

\* Piece::split
split(piece, relative_offset) ==
    [left  |-> Piece(piece.offset, relative_offset, piece.kind),
     right |-> Piece(piece.offset + relative_offset,
                     piece.width - relative_offset, piece.kind)]

None == [found |-> FALSE, piece_index |-> 0, relative_offset |-> 0]
Some(piece_index, relative_offset) ==
    [found |-> TRUE, piece_index |-> piece_index, relative_offset |-> relative_offset]

RECURSIVE find_piece_loop(_, _, _, _)
find_piece_loop(ps, offset, piece_index, current_offset) ==
    IF piece_index >= Len(ps) THEN None
    ELSE LET piece == ps[piece_index + 1]
             current == current_offset + piece.width
         IN  IF current >= offset
             THEN Some(piece_index, piece.width - (current - offset))
             ELSE find_piece_loop(ps, offset, piece_index + 1, current)

\* PieceTable::find_piece
find_piece(ps, offset) == find_piece_loop(ps, offset, 0, 0)

\* the pieces a splice keeps of its replacement
filter_nonzero(replacement) == SelectSeq(replacement, LAMBDA piece : piece.width # 0)

\* PieceTable::splice: pieces[first..=to] replaced (first is the source's from)
splice(ps, first, to, replacement) ==
    SubSeq(ps, 1, first) \o filter_nonzero(replacement) \o SubSeq(ps, to + 2, Len(ps))

\* Vec::insert(index, element)
vec_insert(ps, index, element) ==
    SubSeq(ps, 1, index) \o <<element>> \o SubSeq(ps, index + 1, Len(ps))

\* a wrong add_piece: the string is put in front of the append buffer
add_piece_in_front(app, string) ==
    [append |-> string \o app,
     piece  |-> Piece(0, Len(string), PieceKindAppend)]

\* PieceTable::add_piece: the grown append buffer and the piece for the string
add_piece(app, string) ==
    [append |-> app \o string,
     piece  |-> Piece(Len(app), Len(string), PieceKindAppend)]

\* PieceTable::string_for
string_for(orig, app, piece) ==
    LET buffer == IF piece.kind = PieceKindOriginal THEN orig ELSE app
        begin == piece.offset
        end == piece.offset + piece.width
    IN  IF is_char_boundary(buffer, begin) /\ is_char_boundary(buffer, end)
        THEN Ok(SubSeq(buffer, begin + 1, end))
        ELSE Panic

RECURSIVE gather_loop(_, _, _, _)
gather_loop(orig, app, ps, i) ==
    IF i > Len(ps) THEN Ok(<<>>)
    ELSE LET head == string_for(orig, app, ps[i])
             rest == gather_loop(orig, app, ps, i + 1)
         IN  IF head.panic \/ rest.panic THEN Panic
             ELSE Ok(head.value \o rest.value)

\* PieceTable::gather
gather(orig, app, ps) == gather_loop(orig, app, ps, 1)

RECURSIVE width_sum(_, _)
width_sum(ps, i) == IF i > Len(ps) THEN 0 ELSE ps[i].width + width_sum(ps, i + 1)

\* the length of the logical text
text_length == width_sum(pieces, 1)

\* the call record kept for the properties
Call(op, offset, width, string, panics) ==
    [op |-> op, offset |-> offset, width |-> width, string |-> string,
     panicked |-> panics,
     original |-> original, append |-> append, pieces |-> pieces,
     count |-> tcall.count + 1]

New(constructor) ==
    [op |-> "new", constructor |-> constructor, count |-> 0, panicked |-> FALSE]

\* a wrong constructor: the piece refers to the append buffer
from_append_kind(string) ==
    /\ original = string
    /\ append = <<>>
    /\ pieces = <<Piece(0, Len(string), PieceKindAppend)>>

\* impl From<String> for PieceTable
from(string) ==
    /\ original = string
    /\ append = <<>>
    /\ pieces = <<Piece(0, Len(string), PieceKindOriginal)>>

\* #[derive(Default)] PieceTable
default ==
    /\ original = <<>>
    /\ append = <<>>
    /\ pieces = <<>>

\* a wrong insert: inside a piece the new piece is put after it, unsplit
insert_without_split(offset, string) ==
    LET position == find_piece(pieces, offset)
    IN  IF ~position.found
        THEN /\ tcall' = Call("insert", offset, 0, string, TRUE)
             /\ UNCHANGED <<original, append, pieces>>
        ELSE LET added == add_piece(append, string)
                 new == added.piece
             IN  /\ append' = added.append
                 /\ pieces' =
                        IF position.relative_offset = 0
                        THEN vec_insert(pieces, position.piece_index, new)
                        ELSE vec_insert(pieces, position.piece_index + 1, new)
                 /\ tcall' = Call("insert", offset, 0, string, FALSE)
                 /\ UNCHANGED original

\* PieceTable::insert
insert(offset, string) ==
    LET position == find_piece(pieces, offset)
    IN  IF ~position.found
        THEN /\ tcall' = Call("insert", offset, 0, string, TRUE)
             /\ UNCHANGED <<original, append, pieces>>
        ELSE LET piece == pieces[position.piece_index + 1]
                 added == add_piece(append, string)
                 new == added.piece
                 halves == split(piece, position.relative_offset)
             IN  /\ append' = added.append
                 /\ pieces' =
                        IF position.relative_offset = 0
                        THEN vec_insert(pieces, position.piece_index, new)
                        ELSE IF position.relative_offset = piece.width
                        THEN vec_insert(pieces, position.piece_index + 1, new)
                        ELSE splice(pieces, position.piece_index, position.piece_index,
                                    <<halves.left, new, halves.right>>)
                 /\ tcall' = Call("insert", offset, 0, string, FALSE)
                 /\ UNCHANGED original

\* a wrong remove: no early return for width 0
remove_without_guard(offset, width) ==
    LET start == find_piece(pieces, offset)
        stop == find_piece(pieces, offset + width)
    IN  IF ~start.found \/ ~stop.found
        THEN /\ tcall' = Call("remove", offset, width, <<>>, TRUE)
             /\ UNCHANGED <<original, append, pieces>>
        ELSE LET l == split(pieces[start.piece_index + 1], start.relative_offset).left
                 r == split(pieces[stop.piece_index + 1], stop.relative_offset).right
             IN  /\ pieces' = splice(pieces, start.piece_index, stop.piece_index, <<l, r>>)
                 /\ tcall' = Call("remove", offset, width, <<>>, FALSE)
                 /\ UNCHANGED <<original, append>>

\* PieceTable::remove
remove(offset, width) ==
    IF width = 0
    THEN /\ tcall' = Call("remove", offset, width, <<>>, FALSE)
         /\ UNCHANGED <<original, append, pieces>>
    ELSE LET start == find_piece(pieces, offset)
             stop == find_piece(pieces, offset + width)
         IN  IF ~start.found \/ ~stop.found
             THEN /\ tcall' = Call("remove", offset, width, <<>>, TRUE)
                  /\ UNCHANGED <<original, append, pieces>>
             ELSE LET l == split(pieces[start.piece_index + 1], start.relative_offset).left
                      r == split(pieces[stop.piece_index + 1], stop.relative_offset).right
                  IN  /\ pieces' = splice(pieces, start.piece_index, stop.piece_index, <<l, r>>)
                      /\ tcall' = Call("remove", offset, width, <<>>, FALSE)
                      /\ UNCHANGED <<original, append>>

\* ------------------------------------------------------------------ util.rs, terminal.rs
\* the largest u16 (Position and Size hold u16 fields)
U16Max == 65535

Directions == {"Up", "Down", "Left", "Right"}

\* util::rotate_forward
rotate_forward(min, max, n) == IF n + 1 = max THEN min ELSE n + 1

\* a wrong rotate_backward: the lowest index stays where it is
rotate_backward_no_wrap(min, max, n) == IF n = min THEN min ELSE n - 1

\* util::rotate_backward
rotate_backward(min, max, n) == (IF n = min THEN max ELSE n) - 1

Position(x, y) == [x |-> x, y |-> y]
Size(width, height) == [width |-> width, height |-> height]

\* u16::saturating_sub, u16::saturating_add, Ord::min
saturating_sub(a, b) == IF a < b THEN 0 ELSE a - b
saturating_add(a, b) == IF a + b > U16Max THEN U16Max ELSE a + b
min(a, b) == IF a < b THEN a ELSE b

\* Position::move_toward
move_toward(position, direction) ==
    CASE direction = "Up" -> [position EXCEPT !.y = saturating_sub(@, 1)]
      [] direction = "Down" -> [position EXCEPT !.y = saturating_add(@, 1)]
      [] direction = "Left" -> [position EXCEPT !.x = saturating_sub(@, 1)]
      [] direction = "Right" -> [position EXCEPT !.x = saturating_add(@, 1)]

\* Position::offset
offset(position, other) == Position(position.x + other.x, position.y + other.y)

\* ------------------------------------------------------------------ editor.rs
\* Option<String>, Option<WindowID>, Option<View>: no element or one
NoneOption == <<>>
SomeOption(v) == <<v>>

\* Window::default()
WindowDefault ==
    [position |-> Position(0, 0), cursor |-> Position(0, 0), size |-> Size(0, 0),
     view |-> NoneOption, is_open |-> FALSE, redraw |-> FALSE]

\* Window::keep_cursor_within_bounds
keep_cursor_within_bounds(window) ==
    [window EXCEPT
        !.cursor.x = min(@, saturating_sub(window.size.width, 1)),
        !.cursor.y = min(@, saturating_sub(window.size.height, 1))]

\* Window::contains_x, contains_y, contains
contains_x(window, x) ==
    window.position.x <= x /\ x < window.position.x + window.size.width
contains_y(window, y) ==
    window.position.y <= y /\ y < window.position.y + window.size.height
contains(window, position) ==
    contains_x(window, position.x) /\ contains_y(window, position.y)

\* the smallest width (height) a window may have to be split
MinSplitSize == 6

\* the terminal sizes the editor is created with and resized to
CanvasSizes == {Size(13, 13), Size(5, 6)}

\* IndexVec::push on the window arena: the handle is the old length
push(ws, window) == [windows |-> Append(ws, window), id |-> Len(ws)]

\* Editor::new_tab: the arena with the tab's window pushed, and the tab
new_tab(ws, canvas) ==
    LET pushed == push(ws, [WindowDefault EXCEPT
                                !.size = Size(canvas.width, canvas.height - 1),
                                !.is_open = TRUE,
                                !.redraw = TRUE])
    IN  [windows |-> pushed.windows,
         tab |-> [open_windows |-> <<pushed.id>>, window_focus |-> pushed.id]]

\* Editor::new
new(canvas) ==
    LET made == new_tab(<<>>, canvas)
    IN  /\ windows = made.windows
        /\ tabs = <<made.tab>>
        /\ mode = "Normal"
        /\ size = canvas
        /\ status = NoneOption
        /\ current_tab = 0
        /\ panicked = FALSE

\* Editor::emit_message
emit_message(message) == status' = SomeOption(message)

\* Editor::force_redraw
force_redraw(ws) == [i \in 1 .. Len(ws) |-> [ws[i] EXCEPT !.redraw = TRUE]]

\* Editor::window_focus
window_focus == tabs[current_tab + 1].window_focus

\* Editor::set_window_focus
set_window_focus(new_focus) ==
    /\ windows' = [[windows EXCEPT ![window_focus + 1].redraw = TRUE]
                      EXCEPT ![new_focus + 1].redraw = TRUE]
    /\ tabs' = [tabs EXCEPT ![current_tab + 1].window_focus = new_focus]

\* a wrong set_current_tab: the windows are not marked for redraw
set_current_tab_without_redraw(ws, tab_count, tab) ==
    IF tab < tab_count
    THEN /\ current_tab' = tab
         /\ windows' = ws
         /\ panicked' = FALSE
    ELSE /\ panicked' = TRUE
         /\ windows' = ws
         /\ UNCHANGED current_tab

\* Editor::set_current_tab, on the arena ws and with tab_count tabs
set_current_tab(ws, tab_count, tab) ==
    IF tab < tab_count
    THEN /\ current_tab' = tab
         /\ windows' = force_redraw(ws)
         /\ panicked' = FALSE
    ELSE /\ panicked' = TRUE
         /\ windows' = ws
         /\ UNCHANGED current_tab

\* Editor::tab_open
tab_open ==
    LET made == new_tab(windows, size)
        inserted == vec_insert(tabs, current_tab + 1, made.tab)
    IN  /\ tabs' = inserted
        /\ set_current_tab(made.windows, Len(inserted), current_tab + 1)
        /\ UNCHANGED <<status, size>>

\* Vec::remove(index)
vec_remove(v, index) == SubSeq(v, 1, index) \o SubSeq(v, index + 2, Len(v))

\* a wrong closing of windows: every window of the arena is closed
close_windows_all(ws, ids) ==
    [i \in 1 .. Len(ws) |-> [ws[i] EXCEPT !.is_open = FALSE]]

\* the arena with the windows of the handles in ids closed
close_windows(ws, ids) ==
    [i \in 1 .. Len(ws) |->
        IF \E k \in 1 .. Len(ids) : ids[k] = i - 1
        THEN [ws[i] EXCEPT !.is_open = FALSE]
        ELSE ws[i]]

\* a wrong tab_close: the index always moves back by one
tab_close_always_back ==
    IF Len(tabs) = 1
    THEN /\ emit_message("Cannot close last tab")
         /\ UNCHANGED <<windows, tabs, size, current_tab, panicked>>
    ELSE LET closed == close_windows(windows, tabs[current_tab + 1].open_windows)
             removed == vec_remove(tabs, current_tab)
         IN  /\ tabs' = removed
             /\ set_current_tab(closed, Len(removed), saturating_sub(current_tab, 1))
             /\ UNCHANGED <<status, size>>

\* a wrong tab_close: the guard looks for no tab instead of one
tab_close_no_guard ==
    IF Len(tabs) = 0
    THEN /\ emit_message("Cannot close last tab")
         /\ UNCHANGED <<windows, tabs, size, current_tab, panicked>>
    ELSE LET closed == close_windows(windows, tabs[current_tab + 1].open_windows)
             removed == vec_remove(tabs, current_tab)
         IN  /\ tabs' = removed
             /\ IF current_tab = Len(removed)
                THEN set_current_tab(closed, Len(removed), current_tab - 1)
                ELSE /\ windows' = closed
                     /\ UNCHANGED <<current_tab, panicked>>
             /\ UNCHANGED <<status, size>>

\* a wrong tab_close: the index stays where it is
tab_close_keeps_index ==
    IF Len(tabs) = 1
    THEN /\ emit_message("Cannot close last tab")
         /\ UNCHANGED <<windows, tabs, size, current_tab, panicked>>
    ELSE LET closed == close_windows(windows, tabs[current_tab + 1].open_windows)
             removed == vec_remove(tabs, current_tab)
         IN  /\ tabs' = removed
             /\ windows' = closed
             /\ UNCHANGED <<status, size, current_tab, panicked>>

\* Editor::tab_close
tab_close ==
    IF Len(tabs) = 1
    THEN /\ emit_message("Cannot close last tab")
         /\ UNCHANGED <<windows, tabs, size, current_tab, panicked>>
    ELSE LET closed == close_windows(windows, tabs[current_tab + 1].open_windows)
             removed == vec_remove(tabs, current_tab)
         IN  /\ tabs' = removed
             /\ IF current_tab = Len(removed)
                THEN set_current_tab(closed, Len(removed), current_tab - 1)
                ELSE /\ windows' = closed
                     /\ UNCHANGED <<current_tab, panicked>>
             /\ UNCHANGED <<status, size>>

\* Editor::tab_next
tab_next ==
    /\ set_current_tab(windows, Len(tabs), rotate_forward(0, Len(tabs), current_tab))
    /\ UNCHANGED <<tabs, status, size>>

\* Editor::tab_previous
tab_previous ==
    /\ set_current_tab(windows, Len(tabs), rotate_backward(0, Len(tabs), current_tab))
    /\ UNCHANGED <<tabs, status, size>>

\* a wrong move_cursor: the cursor is not kept within the window
move_cursor_unbounded(direction) ==
    LET window == windows[window_focus + 1]
        moved == [window EXCEPT !.cursor = move_toward(window.cursor, direction)]
    IN  /\ windows' = [windows EXCEPT ![window_focus + 1] = moved]
        /\ UNCHANGED <<tabs, status, size, current_tab, panicked>>

\* Editor::move_cursor
move_cursor(direction) ==
    LET window == windows[window_focus + 1]
        moved == [window EXCEPT !.cursor = move_toward(window.cursor, direction)]
    IN  /\ windows' = [windows EXCEPT ![window_focus + 1] = keep_cursor_within_bounds(moved)]
        /\ UNCHANGED <<tabs, status, size, current_tab, panicked>>

\* Editor::rotate_focus_forward
rotate_focus_forward ==
    /\ set_window_focus(rotate_forward(0, Len(windows), window_focus))
    /\ UNCHANGED <<status, size, current_tab, panicked>>

\* Editor::rotate_focus_backward
rotate_focus_backward ==
    /\ set_window_focus(rotate_backward(0, Len(windows), window_focus))
    /\ UNCHANGED <<status, size, current_tab, panicked>>

\* the range first..last (last excluded) as a sequence, and a sequence reversed
range(first, last) == [i \in 1 .. (IF last > first THEN last - first ELSE 0) |-> first + i - 1]
rev(s) == [i \in 1 .. Len(s) |-> s[Len(s) + 1 - i]]

RECURSIVE beam_loop(_, _)
beam_loop(beam, i) ==
    IF i > Len(beam) THEN NoneOption
    ELSE LET hits == SelectSeq(tabs[current_tab + 1].open_windows,
                               LAMBDA id : id # window_focus
                                           /\ contains(windows[id + 1], beam[i]))
         IN  IF hits # <<>> THEN SomeOption(Head(hits)) ELSE beam_loop(beam, i + 1)

\* Editor::run_cursor_focus_beam
run_cursor_focus_beam(beam) == beam_loop(beam, 1)

\* Editor::send_cursor_focus_beam
send_cursor_focus_beam(direction) ==
    LET window == windows[window_focus + 1]
        cursor == offset(window.position, window.cursor)
        along_y(ys) == [i \in 1 .. Len(ys) |-> Position(cursor.x, ys[i])]
        along_x(xs) == [i \in 1 .. Len(xs) |-> Position(xs[i], cursor.y)]
    IN  CASE direction = "Up" ->
                run_cursor_focus_beam(along_y(rev(range(0, window.position.y))))
          [] direction = "Down" ->
                run_cursor_focus_beam(along_y(range(window.position.y, size.height)))
          [] direction = "Left" ->
                run_cursor_focus_beam(along_x(rev(range(0, window.position.x))))
          [] direction = "Right" ->
                run_cursor_focus_beam(
                    along_x(range(window.position.x + window.size.width, size.width)))

\* Editor::move_focus
move_focus(direction) ==
    LET found == send_cursor_focus_beam(direction)
    IN  /\ IF found # NoneOption
           THEN set_window_focus(found[1])
           ELSE UNCHANGED <<windows, tabs>>
        /\ UNCHANGED <<status, size, current_tab, panicked>>

\* a wrong vertical split: the odd cell is given to neither half
vertical_split_window_drop_remainder ==
    LET left == windows[window_focus + 1]
    IN  IF left.size.width < MinSplitSize
        THEN /\ emit_message("The window is too small for a vertical split")
             /\ UNCHANGED <<windows, tabs, size, current_tab, panicked>>
        ELSE LET shrunk == keep_cursor_within_bounds(
                               [left EXCEPT !.size.width = left.size.width \div 2])
                 right == [shrunk EXCEPT !.position.x = @ + shrunk.size.width,
                                         !.redraw = TRUE]
                 pushed == push([windows EXCEPT ![window_focus + 1] =
                                    [shrunk EXCEPT !.redraw = TRUE]], right)
             IN  /\ windows' = pushed.windows
                 /\ tabs' = [tabs EXCEPT ![current_tab + 1].open_windows =
                                Append(@, pushed.id)]
                 /\ UNCHANGED <<status, size, current_tab, panicked>>

\* Editor::vertical_split_window
vertical_split_window ==
    LET left == windows[window_focus + 1]
    IN  IF left.size.width < MinSplitSize
        THEN /\ emit_message("The window is too small for a vertical split")
             /\ UNCHANGED <<windows, tabs, size, current_tab, panicked>>
        ELSE LET remainder == left.size.width % 2
                 shrunk == keep_cursor_within_bounds(
                               [left EXCEPT !.size.width = left.size.width \div 2])
                 right == [shrunk EXCEPT !.size.width = @ + remainder,
                                         !.position.x = @ + shrunk.size.width,
                                         !.redraw = TRUE]
                 pushed == push([windows EXCEPT ![window_focus + 1] =
                                    [shrunk EXCEPT !.redraw = TRUE]], right)
             IN  /\ windows' = pushed.windows
                 /\ tabs' = [tabs EXCEPT ![current_tab + 1].open_windows =
                                Append(@, pushed.id)]
                 /\ UNCHANGED <<status, size, current_tab, panicked>>

\* a wrong horizontal split: a window below the minimum is split all the same
horizontal_split_window_no_minimum ==
    LET above == windows[window_focus + 1]
    IN  LET remainder == above.size.height % 2
            shrunk == keep_cursor_within_bounds(
                          [above EXCEPT !.size.height = above.size.height \div 2])
            below == [shrunk EXCEPT !.size.height = @ + remainder,
                                    !.position.y = @ + shrunk.size.height,
                                    !.redraw = TRUE]
            pushed == push([windows EXCEPT ![window_focus + 1] =
                               [shrunk EXCEPT !.redraw = TRUE]], below)
        IN  /\ windows' = pushed.windows
            /\ tabs' = [tabs EXCEPT ![current_tab + 1].open_windows =
                           Append(@, pushed.id)]
            /\ UNCHANGED <<status, size, current_tab, panicked>>

\* Editor::horizontal_split_window
horizontal_split_window ==
    LET above == windows[window_focus + 1]
    IN  IF above.size.height < MinSplitSize
        THEN /\ emit_message("The window is too small for a horizontal split")
             /\ UNCHANGED <<windows, tabs, size, current_tab, panicked>>
        ELSE LET remainder == above.size.height % 2
                 shrunk == keep_cursor_within_bounds(
                               [above EXCEPT !.size.height = above.size.height \div 2])
                 below == [shrunk EXCEPT !.size.height = @ + remainder,
                                         !.position.y = @ + shrunk.size.height,
                                         !.redraw = TRUE]
                 pushed == push([windows EXCEPT ![window_focus + 1] =
                                    [shrunk EXCEPT !.redraw = TRUE]], below)
             IN  /\ windows' = pushed.windows
                 /\ tabs' = [tabs EXCEPT ![current_tab + 1].open_windows =
                                Append(@, pushed.id)]
                 /\ UNCHANGED <<status, size, current_tab, panicked>>

\* ui.rs handle_event, Event::Resize
resize(canvas) ==
    /\ size' = canvas
    /\ UNCHANGED <<windows, tabs, status, current_tab, panicked>>

\* ------------------------------------------------------------------ ui.rs
\* the fields of the Editor that its methods other than edit work on
core == <<windows, tabs, status, size, current_tab, panicked>>

\* a String of one-byte characters, as the characters in a row
RECURSIVE string_of(_)
string_of(characters) ==
    IF characters = <<>> THEN "" ELSE Head(characters) \o string_of(Tail(characters))

\* char::is_whitespace, on the characters a key can give
is_whitespace(character) == character = " "

\* str::split_whitespace: the maximal runs of characters that are not whitespace
RECURSIVE split_whitespace_loop(_, _, _)
split_whitespace_loop(line, i, word) ==
    LET finished == IF word = <<>> THEN <<>> ELSE <<word>>
    IN  IF i > Len(line) THEN finished
        ELSE IF is_whitespace(line[i])
             THEN finished \o split_whitespace_loop(line, i + 1, <<>>)
             ELSE split_whitespace_loop(line, i + 1, Append(word, line[i]))

split_whitespace(line) == split_whitespace_loop(line, 1, <<>>)

\* what the file system answers to Buffer::read: an error, or the contents
ReadErr == [ok |-> FALSE, contents |-> <<>>]
ReadOk(contents) == [ok |-> TRUE, contents |-> contents]
ReadOutcomes == {ReadErr} \cup {ReadOk(contents) : contents \in {<<>>, <<"a">>}}

\* Buffer::read, when the file system gave the contents
read(path, contents) ==
    [text |-> [original |-> contents, append |-> <<>>,
               pieces |-> <<Piece(0, Len(contents), PieceKindOriginal)>>],
     file_info |-> SomeOption([path |-> path]),
     windows |-> <<>>]

\* Editor::edit; an error of Buffer::read is returned by `?`
edit(path, outcome) ==
    /\ IF ~outcome.ok
       THEN /\ failed' = TRUE
            /\ UNCHANGED <<buffers, windows>>
       ELSE LET window == windows[window_focus + 1]
                view == [offset |-> window.position.x + 1,
                         size |-> Size(window.size.width - 2, window.size.height - 2),
                         buffer |-> Len(buffers)]
            IN  /\ buffers' = Append(buffers, read(path, outcome.contents))
                /\ windows' = [windows EXCEPT ![window_focus + 1] =
                                  [window EXCEPT !.view = SomeOption(view),
                                                 !.cursor = Position(0, 0),
                                                 !.redraw = TRUE]]
                /\ UNCHANGED failed
    /\ UNCHANGED <<tabs, status, size, current_tab, panicked>>

\* ui.rs draw_windows: the windows of the current tab that are marked are
\* drawn and unmarked (writes to the terminal are taken to succeed)
draw_windows ==
    windows' = [i \in 1 .. Len(windows) |->
                   IF \E k \in 1 .. Len(tabs[current_tab + 1].open_windows) :
                          tabs[current_tab + 1].open_windows[k] = i - 1
                   THEN [windows[i] EXCEPT !.redraw = FALSE]
                   ELSE windows[i]]

\* ui.rs draw
draw == draw_windows

\* ui.rs execute_command_line; outcome is the answer to Buffer::read, if asked
execute_command_line(outcome) ==
    LET words == split_whitespace(command_line)
        command == words[1]
    IN  IF words = <<>>
        THEN UNCHANGED <<core, buffers, quit, failed>>
        ELSE CASE command \in {<<"e">>, <<"e", "d", "i", "t">>} ->
                    IF Len(words) >= 2
                    THEN edit(words[2], outcome) /\ UNCHANGED quit
                    ELSE UNCHANGED <<core, buffers, quit, failed>>
               [] command \in {<<"q">>, <<"q", "u", "i", "t">>} ->
                    quit' = TRUE /\ UNCHANGED <<core, buffers, failed>>
               [] command \in {<<"s", "p">>, <<"s", "p", "l", "i", "t">>} ->
                    horizontal_split_window /\ UNCHANGED <<buffers, quit, failed>>
               [] command \in {<<"v", "s", "p">>, <<"v", "s", "p", "l", "i", "t">>} ->
                    vertical_split_window /\ UNCHANGED <<buffers, quit, failed>>
               [] command = <<"r", "e", "d", "r", "a", "w">> ->
                    /\ windows' = force_redraw(windows)
                    /\ UNCHANGED <<tabs, status, size, current_tab, panicked>>
                    /\ UNCHANGED <<buffers, quit, failed>>
               [] command = <<"t", "a", "b", "o", "p", "e", "n">> ->
                    tab_open /\ UNCHANGED <<buffers, quit, failed>>
               [] command = <<"t", "a", "b", "c", "l", "o", "s", "e">> ->
                    tab_close /\ UNCHANGED <<buffers, quit, failed>>
               [] command = <<"t", "a", "b", "n", "e", "x", "t">> ->
                    tab_next /\ UNCHANGED <<buffers, quit, failed>>
               [] command \in {<<"t", "a", "b", "p", "r", "e", "v">>,
                               <<"t", "a", "b", "p", "r", "e", "v", "i", "o", "u", "s">>} ->
                    tab_previous /\ UNCHANGED <<buffers, quit, failed>>
               [] OTHER ->
                    /\ status' = SomeOption("Unrecognized command: " \o string_of(command))
                    /\ UNCHANGED <<windows, tabs, size, current_tab, panicked>>
                    /\ UNCHANGED <<buffers, quit, failed>>

\* a crossterm KeyEvent: its code (with the character of a Char), modifiers and kind
Key(code, character, modifiers, kind) ==
    [code |-> code, character |-> character, modifiers |-> modifiers, kind |-> kind]

Control(key, character) ==
    key.code = "Char" /\ key.character = character /\ key.modifiers = "CONTROL"

\* ui.rs handle_key, Mode::Normal
handle_key_normal(key) ==
    /\ UNCHANGED <<buffers, command_line, failed>>
    /\ IF Control(key, "c") THEN quit' = TRUE /\ UNCHANGED <<core, mode>>
       ELSE IF Control(key, "w") THEN mode' = "Window" /\ UNCHANGED <<core, quit>>
       ELSE IF Control(key, "q") THEN tab_close /\ UNCHANGED <<mode, quit>>
       ELSE IF Control(key, "t") THEN tab_open /\ UNCHANGED <<mode, quit>>
       ELSE IF key.code = "Char"
            THEN CASE key.character = "h" -> move_cursor("Left") /\ UNCHANGED <<mode, quit>>
                   [] key.character = "j" -> move_cursor("Down") /\ UNCHANGED <<mode, quit>>
                   [] key.character = "k" -> move_cursor("Up") /\ UNCHANGED <<mode, quit>>
                   [] key.character = "l" -> move_cursor("Right") /\ UNCHANGED <<mode, quit>>
                   [] key.character = "H" -> tab_previous /\ UNCHANGED <<mode, quit>>
                   [] key.character = "L" -> tab_next /\ UNCHANGED <<mode, quit>>
                   [] key.character = "i" -> mode' = "Insert" /\ UNCHANGED <<core, quit>>
                   [] key.character = ":" -> mode' = "CommandLine" /\ UNCHANGED <<core, quit>>
                   [] OTHER -> UNCHANGED <<core, mode, quit>>
            ELSE UNCHANGED <<core, mode, quit>>

\* ui.rs handle_key, Mode::Window
handle_key_window(key) ==
    /\ UNCHANGED <<buffers, command_line, failed, quit>>
    /\ IF key.code = "Esc" THEN mode' = "Normal" /\ UNCHANGED core
       ELSE IF key.code = "Char"
            THEN CASE key.character = "h" -> move_focus("Left") /\ UNCHANGED mode
                   [] key.character = "j" -> move_focus("Down") /\ UNCHANGED mode
                   [] key.character = "k" -> move_focus("Up") /\ UNCHANGED mode
                   [] key.character = "l" -> move_focus("Right") /\ UNCHANGED mode
                   [] key.character = "s" -> horizontal_split_window /\ UNCHANGED mode
                   [] key.character = "v" -> vertical_split_window /\ UNCHANGED mode
                   [] key.character = "w" -> rotate_focus_forward /\ UNCHANGED mode
                   [] key.character = "W" -> rotate_focus_backward /\ UNCHANGED mode
                   [] OTHER -> UNCHANGED <<core, mode>>
            ELSE UNCHANGED <<core, mode>>

\* a wrong Insert mode: the escape key is not looked at
handle_key_insert_without_escape(key) ==
    /\ UNCHANGED <<buffers, command_line, failed, quit>>
    /\ IF key.code = "Char"
       THEN /\ status' = SomeOption("got '" \o key.character \o "'")
            /\ UNCHANGED <<windows, tabs, size, current_tab, panicked, mode>>
       ELSE UNCHANGED <<core, mode>>

\* ui.rs handle_key, Mode::Insert
handle_key_insert(key) ==
    /\ UNCHANGED <<buffers, command_line, failed, quit>>
    /\ IF key.code = "Esc" THEN mode' = "Normal" /\ UNCHANGED core
       ELSE IF key.code = "Char"
            THEN /\ status' = SomeOption("got '" \o key.character \o "'")
                 /\ UNCHANGED <<windows, tabs, size, current_tab, panicked, mode>>
            ELSE UNCHANGED <<core, mode>>

\* ui.rs handle_key, Mode::CommandLine
handle_key_command_line(key, outcome) ==
    IF key.code = "Esc"
    THEN mode' = "Normal" /\ UNCHANGED <<core, buffers, command_line, failed, quit>>
    ELSE IF Control(key, "c")
    THEN /\ IF command_line = <<>>
            THEN mode' = "Normal" /\ UNCHANGED command_line
            ELSE command_line' = <<>> /\ UNCHANGED mode
         /\ UNCHANGED <<core, buffers, failed, quit>>
    ELSE IF key.code = "Char"
    THEN /\ command_line' = Append(command_line, key.character)
         /\ UNCHANGED <<core, mode, buffers, failed, quit>>
    ELSE IF key.code = "Backspace"
    THEN /\ command_line' = SubSeq(command_line, 1, Len(command_line) - 1)
         /\ UNCHANGED <<core, mode, buffers, failed, quit>>
    ELSE IF key.code = "Enter"
    THEN /\ execute_command_line(outcome)
         /\ IF failed'
            THEN UNCHANGED <<command_line, mode>>
            ELSE command_line' = <<>> /\ mode' = "Normal"
    ELSE UNCHANGED <<core, mode, buffers, command_line, failed, quit>>

\* ui.rs handle_key
handle_key(key, outcome) ==
    IF key.kind # "Press"
    THEN UNCHANGED <<core, mode, buffers, command_line, failed, quit>>
    ELSE CASE mode = "Normal" -> handle_key_normal(key)
           [] mode = "Window" -> handle_key_window(key)
           [] mode = "Insert" -> handle_key_insert(key)
           [] mode = "CommandLine" -> handle_key_command_line(key, outcome)

\* the characters and the keys the terminal sends
Characters ==
    {"q", "w", "h", "j", "k", "l", "H", "L", "i", ":", "s", "v", "W", "e", " ", "p"}

\* the characters command lines are typed from
LineCharacters == {"e", " ", "q", "s", "p", "v"}

Keys ==
    {Key("Char", character, "NONE", "Press") : character \in Characters}
        \cup {Key("Char", character, "CONTROL", "Press") :
                 character \in {"c", "w", "q", "t"}}
        \cup {Key(code, "", "NONE", "Press") : code \in {"Esc", "Enter", "Backspace", "Tab"}}
        \cup {Key("Esc", "", "NONE", "Release")}

\* UI::new
ui_new(canvas) ==
    /\ new(canvas)
    /\ buffers = <<>>
    /\ command_line = <<>>
    /\ quit = FALSE

\* ------------------------------------------------------------------ the specifications
\* the record of a call: its name and the editor as it was before the call
Entry(op) ==
    [op |-> op, windows |-> windows, tabs |-> tabs, status |-> status,
     size |-> size, current_tab |-> current_tab, count |-> ecall.count + 1]

\* what is kept of the call before the last
Earlier == [op |-> ecall.op, tabs_len |-> Len(ecall.tabs), current_tab |-> ecall.current_tab]

\* the focused handles of the run of rotate_focus calls the call op extends or
\* starts; any other call ends the run
Streak(op) ==
    IF op \in {"rotate_focus_forward", "rotate_focus_backward"}
    THEN IF ecall.op = op
         THEN Append(streak, tabs'[current_tab + 1].window_focus)
         ELSE <<window_focus, tabs'[current_tab + 1].window_focus>>
    ELSE <<>>

LoggedWith(op, direction) ==
    /\ ecall' = Entry(op)
    /\ eprev' = Earlier
    /\ edirection' = direction
    /\ streak' = Streak(op)

Logged(op) == LoggedWith(op, "None")

\* no event handled yet
NoEvent ==
    [event |-> "none", key |-> "None", read |-> "None",
     mode |-> "Normal", command_line |-> <<>>, tab |-> 0, count |-> 0]

\* the UI of the text and editor specifications: created, never run
UIIdle ==
    /\ buffers = <<>>
    /\ command_line = <<>>
    /\ quit = FALSE
    /\ failed = FALSE
    /\ uevent = NoEvent
    /\ pc = "draw"

\* the editor of the text specification: created, never used
EditorIdle ==
    /\ new(Size(13, 13))
    /\ ecall = [op |-> "new", windows |-> windows, tabs |-> tabs, status |-> status,
                size |-> size, current_tab |-> current_tab, count |-> 0]
    /\ eprev = [op |-> "none", tabs_len |-> 0, current_tab |-> 0]
    /\ edirection = "None"
    /\ streak = <<>>
    /\ UIIdle

\* the table of the editor specification: created, never used
TextIdle == default /\ tsource = <<>> /\ tcall = New("default")

TextInit ==
    /\ \E string \in Utf8Strings(InitChars, MaxInitChars) :
          /\ tsource = string
          /\ \/ from(string) /\ tcall = New("from")
             \/ string = <<>> /\ default /\ tcall = New("default")
    /\ EditorIdle

\* a panic ends the use of the table
TextRunning == ~tcall.panicked /\ tcall.count < MaxTextOps

Insert ==
    /\ TextRunning
    /\ \E position \in 0 .. text_length, string \in InsertTexts :
          insert(position, string)
    /\ UNCHANGED <<tsource, evars, uvars>>

Remove ==
    /\ TextRunning
    /\ \E position \in 0 .. text_length + 1, width \in 0 .. text_length :
          /\ width > 0 => position + width <= text_length
          /\ remove(position, width)
    /\ UNCHANGED <<tsource, evars, uvars>>

TextNext == Insert \/ Remove

SpecText == TextInit /\ [][TextNext]_vars

EditorInit ==
    /\ \E canvas \in CanvasSizes : new(canvas)
    /\ ecall = [op |-> "new", windows |-> windows, tabs |-> tabs, status |-> status,
                size |-> size, current_tab |-> current_tab, count |-> 0]
    /\ eprev = [op |-> "none", tabs_len |-> 0, current_tab |-> 0]
    /\ edirection = "None"
    /\ streak = <<>>
    /\ UIIdle
    /\ TextIdle

\* a panic ends the process
EditorRunning == ~panicked /\ ecall.count < MaxEditorOps

TabOpen == EditorRunning /\ tab_open /\ Logged("tab_open")
    /\ UNCHANGED <<mode, tvars, uvars>>
TabClose == EditorRunning /\ tab_close /\ Logged("tab_close")
    /\ UNCHANGED <<mode, tvars, uvars>>
TabNext == EditorRunning /\ tab_next /\ Logged("tab_next")
    /\ UNCHANGED <<mode, tvars, uvars>>
TabPrevious == EditorRunning /\ tab_previous /\ Logged("tab_previous")
    /\ UNCHANGED <<mode, tvars, uvars>>
MoveCursor ==
    /\ EditorRunning
    /\ \E direction \in Directions :
          move_cursor(direction) /\ LoggedWith("move_cursor", direction)
    /\ UNCHANGED <<mode, tvars, uvars>>
RotateFocusForward ==
    EditorRunning /\ rotate_focus_forward /\ Logged("rotate_focus_forward")
    /\ UNCHANGED <<mode, tvars, uvars>>
RotateFocusBackward ==
    EditorRunning /\ rotate_focus_backward /\ Logged("rotate_focus_backward")
    /\ UNCHANGED <<mode, tvars, uvars>>
MoveFocus ==
    /\ EditorRunning
    /\ \E direction \in Directions :
          move_focus(direction) /\ LoggedWith("move_focus", direction)
    /\ UNCHANGED <<mode, tvars, uvars>>
VerticalSplit ==
    EditorRunning /\ vertical_split_window /\ Logged("vertical_split_window")
    /\ UNCHANGED <<mode, tvars, uvars>>
HorizontalSplit ==
    EditorRunning /\ horizontal_split_window /\ Logged("horizontal_split_window")
    /\ UNCHANGED <<mode, tvars, uvars>>
Resize ==
    /\ EditorRunning
    /\ \E canvas \in CanvasSizes : resize(canvas)
    /\ Logged("resize") /\ UNCHANGED <<mode, tvars, uvars>>

EditorNext ==
    \/ TabOpen \/ TabClose \/ TabNext \/ TabPrevious
    \/ MoveCursor
    \/ RotateFocusForward \/ RotateFocusBackward \/ MoveFocus
    \/ VerticalSplit \/ HorizontalSplit
    \/ Resize

SpecEditor == EditorInit /\ [][EditorNext]_vars

\* UI::run on a fresh UI: draw, then handle the event read, while quit is unset
UIInit ==
    /\ \E canvas \in CanvasSizes : ui_new(canvas)
    /\ failed = FALSE
    /\ uevent = NoEvent
    /\ pc = "draw"
    /\ ecall = [op |-> "new", windows |-> <<>>, tabs |-> <<>>, status |-> NoneOption,
                size |-> Size(0, 0), current_tab |-> 0, count |-> 0]
    /\ eprev = [op |-> "none", tabs_len |-> 0, current_tab |-> 0]
    /\ edirection = "None"
    /\ streak = <<>>
    /\ TextIdle

\* what the editor specification records, which UI::run leaves alone
ghost == <<ecall, eprev, edirection, streak>>

\* a key as the arms of handle_key tell keys apart in every mode: not a
\* press, Control-c, another character, or the code of a key without character
Pressed(key) ==
    IF key.kind # "Press" THEN "Release"
    ELSE IF Control(key, "c") THEN "Control-c"
    ELSE key.code

\* the tab on display, named by the window that new_tab gave it
Displayed == Head(tabs[current_tab + 1].open_windows)

\* the record of the event handled: the event (for a key, which kind of key),
\* the mode, the command line and the tab on display before it, and what
\* Buffer::read answered if the event made it read a file
Handled(event, key, outcome) ==
    LET words == split_whitespace(command_line)
        reads == /\ event = "Key" /\ key.kind = "Press" /\ key.code = "Enter"
                 /\ mode = "CommandLine"
                 /\ Len(words) >= 2
                 /\ words[1] \in {<<"e">>, <<"e", "d", "i", "t">>}
    IN  uevent' = [event |-> event,
                   key |-> IF event = "Key" THEN Pressed(key) ELSE "None",
                   read |-> IF ~reads THEN "None" ELSE IF outcome.ok THEN "Ok" ELSE "Err",
                   mode |-> mode, command_line |-> command_line,
                   tab |-> Displayed,
                   count |-> uevent.count + 1]

Reading == pc = "read" /\ uevent.count < MaxEvents

\* whether a key lengthens the command line
Typed(key) ==
    /\ mode = "CommandLine" /\ key.kind = "Press" /\ key.code = "Char"
    /\ ~Control(key, "c")

\* the loop condition holds: draw
Draw ==
    /\ pc = "draw" /\ ~quit
    /\ draw
    /\ pc' = "read"
    /\ UNCHANGED <<tabs, status, mode, size, current_tab, panicked>>
    /\ UNCHANGED <<buffers, command_line, quit, failed, uevent, ghost, tvars>>

\* the loop condition fails: UI::run returns Ok
Return ==
    /\ pc = "draw" /\ quit
    /\ pc' = "done"
    /\ UNCHANGED <<core, mode, buffers, command_line, quit, failed, uevent, ghost, tvars>>

\* handle_event, Event::Key; an error of handle_key is returned by UI::run
HandleKey ==
    /\ Reading
    /\ \E key \in Keys, outcome \in ReadOutcomes :
          /\ Typed(key) =>
                Len(command_line) < MaxLine /\ key.character \in LineCharacters
          /\ handle_key(key, outcome)
          /\ Handled("Key", key, outcome)
    /\ pc' = IF failed' \/ panicked' THEN "done" ELSE "draw"
    /\ UNCHANGED <<ghost, tvars>>

\* handle_event, Event::Resize
HandleResize ==
    /\ Reading
    /\ \E canvas \in CanvasSizes : resize(canvas)
    /\ Handled("Resize", Key("None", "", "NONE", "Press"), ReadErr)
    /\ pc' = "draw"
    /\ UNCHANGED <<mode, buffers, command_line, quit, failed, ghost, tvars>>

\* handle_event, any other event (focus, mouse, paste)
HandleOther ==
    /\ Reading
    /\ Handled("Other", Key("None", "", "NONE", "Press"), ReadErr)
    /\ pc' = "draw"
    /\ UNCHANGED <<core, mode, buffers, command_line, quit, failed, ghost, tvars>>

UINext == Draw \/ Return \/ HandleKey \/ HandleResize \/ HandleOther

SpecUI == UIInit /\ [][UINext]_vars

\* ------------------------------------------------------------------ properties of the piece table
\* the text before the last call, and the text now
TextBefore == gather(tcall.original, tcall.append, tcall.pieces)
TextNow == gather(original, append, pieces)

\* S[from:to], 0-based and half-open
Slice(s, begin, end) == SubSeq(s, begin + 1, end)

\* C1: after insert(offset, t) on a table with text S and 0 <= offset <= length(S),
\* the call has completed and gather() returns S[0:offset] + t + S[offset:]
C1_InsertThenGather ==
    (tcall.op = "insert" /\ ~TextBefore.panic) =>
        /\ ~tcall.panicked
        /\ TextNow = Ok(Slice(TextBefore.value, 0, tcall.offset) \o tcall.string
                        \o Slice(TextBefore.value, tcall.offset, Len(TextBefore.value)))

\* C2: after remove(offset, width) on a table with text S and offset + width <= length(S),
\* the call has completed and gather() returns S[0:offset] + S[offset+width:]
C2_RemoveThenGather ==
    (tcall.op = "remove" /\ ~TextBefore.panic
        /\ tcall.offset + tcall.width <= Len(TextBefore.value)) =>
        /\ ~tcall.panicked
        /\ TextNow = Ok(Slice(TextBefore.value, 0, tcall.offset)
                        \o Slice(TextBefore.value, tcall.offset + tcall.width,
                                 Len(TextBefore.value)))

\* C3: no stored piece has width 0, and the widths of the stored pieces sum to
\* the length of gather()
C3_NoZeroWidthPiece ==
    /\ \A i \in 1 .. Len(pieces) : pieces[i].width # 0
    /\ ~TextNow.panic => text_length = Len(TextNow.value)

\* C4: remove(offset, 0) completes and leaves the piece sequence, the original
\* buffer and the append buffer as they were
C4_RemoveZeroIsNoOp ==
    (tcall.op = "remove" /\ tcall.width = 0) =>
        /\ ~tcall.panicked
        /\ pieces = tcall.pieces
        /\ original = tcall.original
        /\ append = tcall.append

\* remove(offset, 0) was called with the offset strictly inside a piece
C4_Witness ==
    /\ tcall.op = "remove" /\ tcall.width = 0
    /\ LET position == find_piece(tcall.pieces, tcall.offset)
       IN  /\ position.found
           /\ 0 < position.relative_offset
           /\ position.relative_offset < tcall.pieces[position.piece_index + 1].width
    /\ pieces = tcall.pieces

\* C5: a table constructed from a string S has exactly one piece, an Original
\* piece spanning S, and gather() returns S
C5_RoundTrip ==
    (tcall.op = "new" /\ tcall.constructor = "from") =>
        /\ Len(pieces) = 1
        /\ pieces[1] = Piece(0, Len(tsource), PieceKindOriginal)
        /\ TextNow = Ok(tsource)

\* a table just constructed from a string holding a two-byte character
C5_Witness ==
    /\ tcall.op = "new" /\ tcall.constructor = "from"
    /\ tsource = <<Lead, Continuation>>
    /\ TextNow = Ok(tsource)

\* C6: the original buffer is the string the table was constructed from; an
\* insert of t appends exactly t to the append buffer; remove leaves it alone
C6_BuffersAppendOnly ==
    /\ original = tsource
    /\ (tcall.op = "insert" /\ ~tcall.panicked) => append = tcall.append \o tcall.string
    /\ (tcall.op = "insert" /\ tcall.panicked) => append = tcall.append
    /\ tcall.op = "remove" => append = tcall.append

\* a non-empty text was inserted into a table whose append buffer was not
\* empty, and a later remove kept both buffers
C6_Witness ==
    /\ tcall.op = "remove" /\ ~tcall.panicked /\ tcall.width > 0
    /\ Len(append) >= 2
    /\ original = tsource /\ tsource # <<>>
    /\ append = tcall.append

\* ------------------------------------------------------------------ properties of the editor
\* the focused window's handle before the last call, that window then and now,
\* and the window the arena ends with
FocusBefore == ecall.tabs[ecall.current_tab + 1].window_focus
FocusedBefore == ecall.windows[FocusBefore + 1]
FocusedNow == windows[FocusBefore + 1]
LastWindow == windows[Len(windows)]

SplitVertically == ecall.op = "vertical_split_window"
SplitHorizontally == ecall.op = "horizontal_split_window"

\* C7: a split along a dimension of size D >= 6 leaves the focused window with
\* floor(D/2) and creates a window with ceil(D/2) in that dimension, which
\* starts where the shrunken window ends; the other dimension and the other
\* coordinate are the same for both
C7_SplitHalves ==
    /\ (SplitVertically /\ FocusedBefore.size.width >= MinSplitSize) =>
          LET D == FocusedBefore.size.width
          IN  /\ Len(windows) = Len(ecall.windows) + 1
              /\ FocusedNow.size.width = D \div 2
              /\ LastWindow.size.width = (D + 1) \div 2
              /\ FocusedNow.size.width + LastWindow.size.width = D
              /\ LastWindow.size.width - FocusedNow.size.width \in {0, 1}
              /\ FocusedNow.position = FocusedBefore.position
              /\ LastWindow.position.x = FocusedNow.position.x + FocusedNow.size.width
              /\ LastWindow.position.y = FocusedNow.position.y
              /\ FocusedNow.size.height = FocusedBefore.size.height
              /\ LastWindow.size.height = FocusedNow.size.height
    /\ (SplitHorizontally /\ FocusedBefore.size.height >= MinSplitSize) =>
          LET D == FocusedBefore.size.height
          IN  /\ Len(windows) = Len(ecall.windows) + 1
              /\ FocusedNow.size.height = D \div 2
              /\ LastWindow.size.height = (D + 1) \div 2
              /\ FocusedNow.size.height + LastWindow.size.height = D
              /\ LastWindow.size.height - FocusedNow.size.height \in {0, 1}
              /\ FocusedNow.position = FocusedBefore.position
              /\ LastWindow.position.y = FocusedNow.position.y + FocusedNow.size.height
              /\ LastWindow.position.x = FocusedNow.position.x
              /\ FocusedNow.size.width = FocusedBefore.size.width
              /\ LastWindow.size.width = FocusedNow.size.width

\* a window of odd width, itself the lower half of a horizontal split, was
\* split vertically
C7_Witness ==
    /\ SplitVertically
    /\ FocusedBefore.size.width = 13
    /\ FocusedBefore.position.y > 0
    /\ FocusedNow.size.width = 6 /\ LastWindow.size.width = 7

\* C8: a split of a window whose dimension is below 6 leaves the window arena,
\* the tabs (open-window lists and focus) and the current tab as they were and
\* sets a non-empty status message
C8_SmallSplitRejected ==
    (\/ SplitVertically /\ FocusedBefore.size.width < MinSplitSize
     \/ SplitHorizontally /\ FocusedBefore.size.height < MinSplitSize) =>
        /\ windows = ecall.windows
        /\ tabs = ecall.tabs
        /\ current_tab = ecall.current_tab
        /\ Len(status) = 1 /\ status[1] # ""

\* a window that an earlier split left 3 cells high was refused a horizontal split
C8_Witness ==
    /\ SplitHorizontally
    /\ FocusedBefore.size.height = 3
    /\ Len(windows) >= 3
    /\ windows = ecall.windows
    /\ status = SomeOption("The window is too small for a horizontal split")

OpenedThenClosed == ecall.op = "tab_close" /\ eprev.op = "tab_open"

\* C9: tab_open followed at once by tab_close returns the number of tabs and
\* the current-tab index to what they were before tab_open
C9_OpenCloseRestoresIndex ==
    OpenedThenClosed =>
        /\ Len(tabs) = eprev.tabs_len
        /\ current_tab = eprev.current_tab

\* C9 as amended: the number of tabs returns; the index returns when the
\* current tab was the last one, and is one greater otherwise
C9_OpenCloseAmended ==
    OpenedThenClosed =>
        /\ Len(tabs) = eprev.tabs_len
        /\ current_tab = IF eprev.current_tab + 1 = eprev.tabs_len
                         THEN eprev.current_tab
                         ELSE eprev.current_tab + 1

\* a tab was opened and closed while the current tab was not the last one
C9_Witness ==
    /\ OpenedThenClosed
    /\ eprev.current_tab + 1 < eprev.tabs_len
    /\ Len(tabs) = eprev.tabs_len
    /\ current_tab = eprev.current_tab + 1

\* C10: tab_close with one tab leaves the tabs, every window's open flag, the
\* current tab and the focus as they were and sets a non-empty status message
C10_LastTabCloseRejected ==
    (ecall.op = "tab_close" /\ Len(ecall.tabs) = 1) =>
        /\ tabs = ecall.tabs
        /\ Len(tabs) = 1
        /\ Len(windows) = Len(ecall.windows)
        /\ \A i \in 1 .. Len(windows) : windows[i].is_open = ecall.windows[i].is_open
        /\ current_tab = ecall.current_tab
        /\ window_focus = FocusBefore
        /\ Len(status) = 1 /\ status[1] # ""

\* the only tab, holding two windows, was refused to close
C10_Witness ==
    /\ ecall.op = "tab_close" /\ Len(ecall.tabs) = 1
    /\ Len(tabs[1].open_windows) = 2
    /\ \A i \in 1 .. Len(windows) : windows[i].is_open
    /\ status = SomeOption("Cannot close last tab")

\* C11: there is at least one tab, the current-tab index is below the number
\* of tabs, and the assertion of set_current_tab has not failed
C11_CurrentTabInRange ==
    /\ Len(tabs) >= 1
    /\ 0 <= current_tab /\ current_tab < Len(tabs)
    /\ ~panicked

\* the last of three tabs was closed while current, and then tab_next wrapped
\* from the last tab to the first
C11_Witness ==
    /\ ecall.op = "tab_next" /\ eprev.op = "tab_close"
    /\ eprev.tabs_len = 3 /\ eprev.current_tab = 2
    /\ ecall.current_tab = 1 /\ Len(tabs) = 2
    /\ current_tab = 0

RotatedForward == ecall.op = "rotate_focus_forward" /\ streak # <<>>
RotatedBackward == ecall.op = "rotate_focus_backward" /\ streak # <<>>

\* C12: through a run of rotate_focus_forward calls on an arena of N windows
\* the focused handle goes up by one and from N-1 to 0, so that N calls visit
\* every handle 0..N-1 once and return the focus to where it started; through
\* a run of rotate_focus_backward calls it goes down by one and from 0 to N-1,
\* with the same return after N calls
C12_FocusCycle ==
    LET N == Len(windows)
        steps == 1 .. Len(streak) - 1
    IN  /\ RotatedForward =>
              \A i \in steps :
                  streak[i + 1] = IF streak[i] = N - 1 THEN 0 ELSE streak[i] + 1
        /\ RotatedBackward =>
              \A i \in steps :
                  streak[i + 1] = IF streak[i] = 0 THEN N - 1 ELSE streak[i] - 1
        /\ (RotatedForward \/ RotatedBackward) =>
              /\ \A i \in 1 .. Len(streak) : streak[i] \in 0 .. N - 1
              /\ \A i, j \in 1 .. Len(streak) :
                    (i < j /\ j <= N) => streak[i] # streak[j]
              /\ Len(streak) > N =>
                    /\ streak[N + 1] = streak[1]
                    /\ {streak[i] : i \in 1 .. N} = 0 .. N - 1

\* three rotate_focus_backward calls in a row on an arena of three windows
\* went from handle 1 through 0 and 2 back to 1
C12_Witness ==
    /\ RotatedBackward
    /\ Len(windows) = 3
    /\ streak = <<1, 0, 2, 1>>

\* the cursor of the focused window in canvas coordinates before the last call
CursorBefore == offset(FocusedBefore.position, FocusedBefore.cursor)

\* the canvas cells further from the cursor in a direction, nearest first
CellsFurther(direction) ==
    LET xs == CASE direction = "Left" -> rev(range(0, CursorBefore.x))
                [] direction = "Right" -> range(CursorBefore.x + 1, ecall.size.width)
                [] OTHER -> <<>>
        ys == CASE direction = "Up" -> rev(range(0, CursorBefore.y))
                [] direction = "Down" -> range(CursorBefore.y + 1, ecall.size.height)
                [] OTHER -> <<>>
    IN  [i \in 1 .. Len(xs) |-> Position(xs[i], CursorBefore.y)]
            \o [i \in 1 .. Len(ys) |-> Position(CursorBefore.x, ys[i])]

\* the open windows of the current tab, the focused one left out, that
\* contained a cell before the last call, in the order of the open-window list
WindowsAt(cell) ==
    SelectSeq(ecall.tabs[ecall.current_tab + 1].open_windows,
              LAMBDA id : id # FocusBefore /\ contains(ecall.windows[id + 1], cell))

\* the focus the beam over cells leads to
BeamTarget(cells) ==
    LET hit == {i \in 1 .. Len(cells) : WindowsAt(cells[i]) # <<>>}
    IN  IF hit = {}
        THEN FocusBefore
        ELSE Head(WindowsAt(cells[CHOOSE i \in hit : \A j \in hit : i <= j]))

\* C13: move_focus(direction) sets the focus to the first open window of the
\* current tab, other than the focused one, that contains a canvas cell
\* further from the cursor in that direction, nearest cell first, and leaves
\* the focus unchanged when there is none
C13_BeamFocus ==
    ecall.op = "move_focus" =>
        /\ window_focus = BeamTarget(CellsFurther(edirection))
        /\ current_tab = ecall.current_tab

\* whether the rectangles of two windows share a cell
Overlap(a, b) ==
    /\ a.position.x < b.position.x + b.size.width
    /\ b.position.x < a.position.x + a.size.width
    /\ a.position.y < b.position.y + b.size.height
    /\ b.position.y < a.position.y + a.size.height

\* C14: no two distinct windows listed in the open-window list of one tab
\* have overlapping rectangles
C14_NoOverlapWithinTab ==
    \A t \in 1 .. Len(tabs) :
        \A i, j \in 1 .. Len(tabs[t].open_windows) :
            LET a == tabs[t].open_windows[i]
                b == tabs[t].open_windows[j]
            IN  a # b => ~Overlap(windows[a + 1], windows[b + 1])

\* C15: every window listed in a tab lies within the canvas
C15_WindowsWithinCanvas ==
    \A t \in 1 .. Len(tabs) :
        \A i \in 1 .. Len(tabs[t].open_windows) :
            LET window == windows[tabs[t].open_windows[i] + 1]
            IN  /\ window.position.x + window.size.width <= size.width
                /\ window.position.y + window.size.height <= size.height

\* C18: the focused window of every tab is listed in that tab's open-window
\* list and is open
C18_FocusWithinTab ==
    \A t \in 1 .. Len(tabs) :
        /\ \E i \in 1 .. Len(tabs[t].open_windows) :
              tabs[t].open_windows[i] = tabs[t].window_focus
        /\ windows[tabs[t].window_focus + 1].is_open

\* the last call was a split of a window large enough to be split
SplitSucceeded ==
    \/ SplitVertically /\ FocusedBefore.size.width >= MinSplitSize
    \/ SplitHorizontally /\ FocusedBefore.size.height >= MinSplitSize

\* C19: a successful split leaves the length of the window arena as it was
\* when the arena held a closed window, and makes it one longer otherwise
C19_SplitReusesClosedSlot ==
    SplitSucceeded =>
        Len(windows) = IF \E i \in 1 .. Len(ecall.windows) : ~ecall.windows[i].is_open
                       THEN Len(ecall.windows)
                       ELSE Len(ecall.windows) + 1

\* C20: after a successful split the last handle of the current tab's
\* open-window list is a window that the list did not hold before and that is
\* open; and every handle in the open-window list of any tab is an open window
C20_ListedWindowsOpen ==
    /\ SplitSucceeded =>
          LET before == ecall.tabs[ecall.current_tab + 1].open_windows
              now == tabs[current_tab + 1].open_windows
          IN  /\ Len(now) = Len(before) + 1
              /\ SubSeq(now, 1, Len(before)) = before
              /\ \A i \in 1 .. Len(before) : before[i] # now[Len(now)]
              /\ windows[now[Len(now)] + 1].is_open
    /\ \A t \in 1 .. Len(tabs) :
          \A i \in 1 .. Len(tabs[t].open_windows) :
              windows[tabs[t].open_windows[i] + 1].is_open

\* the event just handled made Editor::edit read a file, and the read failed
EditFailed == uevent'.count = uevent.count + 1 /\ uevent'.read = "Err"

\* C16: when Buffer::read fails during an edit command UI::run does not
\* return, the buffer and window arenas stay as they were, and a non-empty
\* status message is set
C16_FailedEditKeepsRunning ==
    [][EditFailed =>
          /\ ~failed' /\ pc' # "done"
          /\ buffers' = buffers /\ windows' = windows
          /\ Len(status') = 1 /\ status'[1] # ""]_vars

Modes == {"Normal", "Insert", "CommandLine", "Window"}

ModeTransitions ==
    {<<"Normal", "Insert">>, <<"Normal", "CommandLine">>, <<"Normal", "Window">>,
     <<"Insert", "Normal">>, <<"Window", "Normal">>, <<"CommandLine", "Normal">>}

\* C17: the mode starts as Normal; an event changes it only along
\* Normal->Insert, Normal->CommandLine, Normal->Window or from one of these
\* back to Normal; it goes back to Normal on the escape key, on submit in
\* CommandLine (unless the command made UI::run return) and on cancel in
\* CommandLine with an empty line, and for no other key; cancel with a
\* non-empty line clears the line and keeps CommandLine; an event that is not
\* a key press leaves the mode as it was
C17_ModeMachine ==
    LET before == uevent.mode
        key == uevent.key
        emptied == uevent.command_line = <<>>
    IN  /\ mode \in Modes
        /\ uevent.count = 0 => mode = "Normal"
        /\ before # mode => <<before, mode>> \in ModeTransitions
        /\ (before # "Normal" /\ mode = "Normal") =>
              \/ key = "Esc"
              \/ before = "CommandLine" /\ key = "Enter"
              \/ before = "CommandLine" /\ key = "Control-c" /\ emptied
        /\ (before # "Normal" /\ key = "Esc") => mode = "Normal"
        /\ (before = "CommandLine" /\ key = "Enter" /\ ~failed) => mode = "Normal"
        /\ (before = "CommandLine" /\ key = "Control-c") =>
              IF emptied
              THEN mode = "Normal"
              ELSE mode = "CommandLine" /\ command_line = <<>>
        /\ (uevent.event # "Key" \/ key = "Release") => mode = before

\* in CommandLine mode, with "e" typed, cancel cleared the line and kept the mode
C17_Witness ==
    /\ uevent.mode = "CommandLine" /\ uevent.key = "Control-c"
    /\ uevent.command_line = <<"e">>
    /\ mode = "CommandLine" /\ command_line = <<>>

\* the offsets at which a piece of ps ends, and 0
PieceEnds(ps) == {width_sum(SubSeq(ps, 1, k), 1) : k \in 0 .. Len(ps)}

\* the last call was an insert of a non-empty text at an offset that resolved
InsertedText == tcall.op = "insert" /\ tcall.string # <<>> /\ ~tcall.panicked

\* C24: an insert of a non-empty text whose offset resolves stores one piece
\* more when the offset is a piece boundary, and two more when it is strictly
\* inside a piece: that piece is then replaced by a left part, the new piece
\* and a right part, the parts being of the piece's source, adjacent, not
\* empty, and of widths that sum to the piece's width
C24_InsertPieceCount ==
    InsertedText =>
        LET before == tcall.pieces
        IN  IF tcall.offset \in PieceEnds(before)
            THEN Len(pieces) = Len(before) + 1
            ELSE /\ Len(pieces) = Len(before) + 2
                 /\ \E i \in 1 .. Len(before) :
                       LET left == pieces[i]
                           right == pieces[i + 2]
                       IN  /\ SubSeq(pieces, 1, i - 1) = SubSeq(before, 1, i - 1)
                           /\ SubSeq(pieces, i + 3, Len(pieces))
                                 = SubSeq(before, i + 1, Len(before))
                           /\ left.kind = before[i].kind /\ right.kind = before[i].kind
                           /\ left.offset = before[i].offset
                           /\ right.offset = left.offset + left.width
                           /\ left.width > 0 /\ right.width > 0
                           /\ left.width + right.width = before[i].width
                           /\ pieces[i + 1].kind = PieceKindAppend
                           /\ pieces[i + 1].width = Len(tcall.string)

\* a text was inserted strictly inside the second of two pieces
C24_Witness ==
    /\ InsertedText
    /\ Len(tcall.pieces) = 2
    /\ tcall.offset \notin PieceEnds(tcall.pieces)
    /\ tcall.offset > tcall.pieces[1].width
    /\ Len(pieces) = 4

\* C25: when the text is empty after a remove, no piece is stored and
\* gather() returns the empty string
C25_EmptyTextNoPieces ==
    (tcall.op = "remove" /\ ~tcall.panicked /\ text_length = 0) =>
        /\ pieces = <<>>
        /\ TextNow = Ok(<<>>)

\* C21: the buffer that the view of a window refers to lists the handle of
\* that window among its windows
C21_BackReferences ==
    \A i \in 1 .. Len(windows) :
        windows[i].view # NoneOption =>
            LET buffer == buffers[windows[i].view[1].buffer + 1]
            IN  \E k \in 1 .. Len(buffer.windows) : buffer.windows[k] = i - 1

ClosedTab == ecall.op = "tab_close" /\ Len(ecall.tabs) >= 2

\* C22: tab_close with two or more tabs removes the current tab and keeps the
\* others in their order, leaves closed exactly the windows that were closed
\* before or are listed in the removed tab, and moves the current-tab index
\* back by one exactly when the removed tab was the last one
C22_TabCloseEffect ==
    ClosedTab =>
        LET k == ecall.current_tab + 1
            n == Len(ecall.tabs)
            listed(id) == \E j \in 1 .. Len(ecall.tabs[k].open_windows) :
                              ecall.tabs[k].open_windows[j] = id
        IN  /\ Len(tabs) = n - 1
            /\ tabs = SubSeq(ecall.tabs, 1, k - 1) \o SubSeq(ecall.tabs, k + 1, n)
            /\ Len(windows) = Len(ecall.windows)
            /\ \A i \in 1 .. Len(windows) :
                  windows[i].is_open = (ecall.windows[i].is_open /\ ~listed(i - 1))
            /\ current_tab = IF k = n THEN ecall.current_tab - 1 ELSE ecall.current_tab

\* the middle one of three tabs was closed: its window is closed, the windows
\* of the other two are open, and the index stays
C22_Witness ==
    /\ ClosedTab
    /\ Len(ecall.tabs) = 3 /\ ecall.current_tab = 1
    /\ Len(tabs) = 2 /\ current_tab = 1
    /\ \E i \in 1 .. Len(windows) : ~windows[i].is_open
    /\ \A t \in 1 .. 2 : windows[tabs[t].open_windows[1] + 1].is_open

\* C26: the cursor of every window of width and height at least 1 is inside
\* the window
C26_CursorWithinWindow ==
    \A i \in 1 .. Len(windows) :
        (windows[i].size.width >= 1 /\ windows[i].size.height >= 1) =>
            /\ windows[i].cursor.x < windows[i].size.width
            /\ windows[i].cursor.y < windows[i].size.height

\* a horizontal split shrank a window to 3 rows below its cursor in row 3 and
\* left the cursor of both halves in row 2
C26_Witness ==
    /\ SplitHorizontally
    /\ FocusedBefore.cursor.y = 3
    /\ FocusedNow.size.height = 3 /\ FocusedNow.cursor.y = 2
    /\ LastWindow.size.height = 3 /\ LastWindow.cursor.y = 2

\* C27: outside CommandLine mode the command line is empty
C27_LineEmptyOutsideCommandLine ==
    mode # "CommandLine" => command_line = <<>>

\* whether the current tab lists the window of a handle
Listed(id) ==
    \E k \in 1 .. Len(tabs[current_tab + 1].open_windows) :
        tabs[current_tab + 1].open_windows[k] = id

\* C23: when the handling of an event has put another tab on display, every
\* window listed in that tab is marked for redraw when the next draw step
\* begins; and a draw step unmarks the windows listed in the current tab and
\* changes no other window
C23_SwitchRedraws ==
    [][/\ (uevent'.count = uevent.count + 1 /\ Displayed' # Displayed) =>
              \A i \in 1 .. Len(windows') : Listed(i - 1)' => windows'[i].redraw
       /\ (pc = "draw" /\ pc' = "read") =>
              /\ Len(windows') = Len(windows)
              /\ \A i \in 1 .. Len(windows) :
                    windows'[i] = IF Listed(i - 1)
                                  THEN [windows[i] EXCEPT !.redraw = FALSE]
                                  ELSE windows[i]]_vars

\* the middle one of three tabs, each drawn while on display, was closed: the
\* third tab came on display with the index unchanged and its window marked
C23_Witness ==
    /\ pc = "draw" /\ uevent.tab = 1 /\ Displayed = 2
    /\ Len(tabs) = 2 /\ current_tab = 1
    /\ ~windows[2].is_open
    /\ windows[3].redraw

====
